---- MODULE Spec2Model ----
(***************************************************************************)
(* systemd-docker (src/main.go): one invocation of the proxy as a state    *)
(* machine.  The main goroutine runs parseContext, runContainer, notify,   *)
(* pidFile, `go pipeLogs`, keepAlive and rmContainer in order; every call  *)
(* to the container runtime, to /proc or to the notify socket is one step, *)
(* so that the runtime and the container's process can change in between.  *)
(* Strings the code takes apart (arguments, datagrams, the pid file) are   *)
(* sequences of one-character strings.                                     *)
(***************************************************************************)
EXTENDS Integers, Sequences, FiniteSets, TLC

VARIABLES
    args,        \* os.Args[1:], the raw argument vector
    notifyEnv,   \* os.Getenv("NOTIFY_SOCKET")
    clientOk,    \* whether dockerClient.NewClient(endpoint) succeeds
    environ,     \* os.Environ()
    c,           \* the Context
    pc,          \* position of the main goroutine
    err,         \* the error mainWithArgs returns ("" for nil)
    failedAt,    \* the stage whose error was returned ("" for none)
    container,   \* lookupNamedContainer's local `container`
    containers,  \* the runtime: id -> [state, name, pid, gen, exit]
    procs,       \* the pids that have a /proc/<pid> entry
    sent,        \* the conn.Write calls of notify, in order: [msg, ok]
    checks,      \* the results of notify's pidDied calls, in order
    ops,         \* the runtime operations and adoptions of this invocation, in order
    files,       \* the file at the pid-file path: [exists, content]
    relay,       \* the pipeLogs goroutine
    poll,        \* keepAlive's loop: the result of its last inspect, whether it has waited
    invocation,  \* how many times the supervisor has run the proxy
    prev         \* the previous invocation: whether runContainer succeeded, its Id and Pid

\* what an invocation is given and never writes
inputs == <<args, notifyEnv, clientOk, environ, invocation, prev>>

vars == <<args, notifyEnv, clientOk, environ, c, pc, err, failedAt, container,
          containers, procs, sent, checks, ops, files, relay, poll, invocation, prev>>

\* everything but the pipeLogs goroutine
vars_but_relay == <<args, notifyEnv, clientOk, environ, c, pc, err, failedAt, container,
                    containers, procs, sent, checks, ops, files, poll, invocation, prev>>

----------------------------------------------------------------------------
(* Strings *)

HasPrefix(s, p) == Len(s) >= Len(p) /\ SubSeq(s, 1, Len(p)) = p

Contains(s, ch) == \E i \in 1..Len(s) : s[i] = ch

IndexOf(s, ch) == CHOOSE i \in 1..Len(s) : s[i] = ch /\ \A j \in 1..(i-1) : s[j] # ch

\* strings.SplitN(s, "=", 2)[1]: what follows the first "="
AfterEq(s) == SubSeq(s, IndexOf(s, "=") + 1, Len(s))

DigitChar(d) == <<"0","1","2","3","4","5","6","7","8","9">>[d + 1]

RECURSIVE Digits(_)
Digits(n) == IF n < 10 THEN <<DigitChar(n)>>
             ELSE Digits(n \div 10) \o <<DigitChar(n % 10)>>

\* strconv.Itoa and fmt's %d
Itoa(n) == IF n < 0 THEN <<"-">> \o Digits(0 - n) ELSE Digits(n)

----------------------------------------------------------------------------
(* Tokens of the command line and of the environment *)

T_run      == <<"r","u","n">>
T_rm       == <<"-","-","r","m">>
T_rm1      == <<"-","r","m">>
T_d        == <<"-","d">>
T_detach   == <<"-","-","d","e","t","a","c","h">>
T_detach1  == <<"-","d","e","t","a","c","h">>
T_name     == <<"-","-","n","a","m","e">>
T_name1    == <<"-","n","a","m","e">>
T_nameWeb  == <<"-","-","n","a","m","e","=","w","e","b">>
T_web      == <<"w","e","b">>
T_img      == <<"n","g","i","n","x">>
T_e        == <<"-","e">>
T_v        == <<"-","v">>
T_n        == <<"-","n">>
T_notify   == <<"-","-","n","o","t","i","f","y">>
T_env      == <<"-","-","e","n","v">>
T_nologs   == <<"-","-","l","o","g","s","=","f","a","l","s","e">>
T_p        == <<"-","p">>
T_pidpath  == <<"/","x",".","p","i","d">>
T_bad      == <<"-","z">>
T_sock     == <<"/","s","d">>
S_NOTIFY   == <<"N","O","T","I","F","Y","_","S","O","C","K","E","T","=">>
S_HOME     == <<"H","O","M","E","=">>
S_PATH     == <<"P","A","T","H","=">>
S_MAINPID  == <<"M","A","I","N","P","I","D","=">>
S_READY    == <<"R","E","A","D","Y","=","1">>

\* os.Environ()
Environ == << S_HOME \o <<"/","r">>, S_PATH \o <<"/","b">>, <<"F","O","O","=","b","a","r">> >>

\* os.Getpid()
SelfPid == 7

----------------------------------------------------------------------------
(* parseContext *)

ZeroContext ==
    [Args |-> <<>>, Logs |-> TRUE, Notify |-> FALSE, Name |-> <<>>, Env |-> FALSE,
     Rm |-> FALSE, Id |-> "", NotifySocket |-> <<>>, Pid |-> 0, PidFile |-> <<>>]

RECURSIVE FindFrom(_, _)
FindFrom(a, i) == IF i > Len(a) THEN -1
                  ELSE IF a[i] = T_run THEN i - 1
                  ELSE FindFrom(a, i + 1)

\* the 0-based index of the first "run", or -1
findRunArg(a) == FindFrom(a, 1)

\* flags.Parse(ownArgs) on the four flags parseContext declares
RECURSIVE FlagsParse(_, _, _)
FlagsParse(own, i, st) ==
    IF i > Len(own) THEN st
    ELSE LET t == own[i] IN
         IF t = T_n \/ t = T_notify THEN FlagsParse(own, i + 1, [st EXCEPT !.Notify = TRUE])
         ELSE IF t = T_e \/ t = T_env THEN FlagsParse(own, i + 1, [st EXCEPT !.Env = TRUE])
         ELSE IF t = T_nologs THEN FlagsParse(own, i + 1, [st EXCEPT !.Logs = FALSE])
         ELSE IF t = T_p THEN
              IF i + 1 > Len(own) THEN [st EXCEPT !.bad = TRUE]
              ELSE FlagsParse(own, i + 2, [st EXCEPT !.PidFile = own[i + 1]])
         ELSE IF HasPrefix(t, <<"-">>) THEN [st EXCEPT !.bad = TRUE]
         ELSE FlagsParse(own, i + 1, st)

\* `case "-rm": fallthrough case "--rm"`, with a mistake: only "--rm" is known
IsRm_LongOnly(arg) == arg = T_rm

\* `case "-rm": fallthrough case "--rm"`
IsRm(arg) == arg = T_rm1 \/ arg = T_rm

\* `case "-d": fallthrough case "-detach": fallthrough case "--detach"`
IsDetach(arg) == arg = T_d \/ arg = T_detach1 \/ arg = T_detach

\* the loop over runArgs: one token per call
RECURSIVE ScanRunArgs(_, _, _)
ScanRunArgs(runArgs, i, st) ==
    IF i > Len(runArgs) THEN st
    ELSE LET arg == runArgs[i]
             isRm == IsRm(arg)
             isD  == IsDetach(arg)
             isNm == HasPrefix(arg, T_name1) \/ HasPrefix(arg, T_name)
             nm   == IF isRm \/ isD \/ ~isNm THEN st.name
                     ELSE IF Contains(arg, "=") THEN AfterEq(arg)
                     ELSE IF Len(runArgs) > i THEN runArgs[i + 1]
                     ELSE st.name
         IN  ScanRunArgs(runArgs, i + 1,
                [Rm      |-> st.Rm \/ isRm,
                 foundD  |-> st.foundD \/ (~isRm /\ isD),
                 name    |-> nm,
                 newArgs |-> IF isRm THEN st.newArgs ELSE Append(st.newArgs, arg)])

\* the loop over os.Environ(), with a mistake: HOME and PATH are passed on too
RECURSIVE EnvFlags_All(_, _)
EnvFlags_All(env, i) ==
    IF i > Len(env) THEN <<>>
    ELSE <<T_e, env[i]>> \o EnvFlags_All(env, i + 1)

\* the loop over os.Environ()
RECURSIVE EnvFlags(_, _)
EnvFlags(env, i) ==
    IF i > Len(env) THEN <<>>
    ELSE (IF ~HasPrefix(env[i], S_HOME) /\ ~HasPrefix(env[i], S_PATH)
          THEN <<T_e, env[i]>> ELSE <<>>) \o EnvFlags(env, i + 1)

\* `if !foundD`, with a mistake: "-d" is put behind the run arguments
ForceDetach_Append(foundD, newArgs) == IF ~foundD THEN Append(newArgs, T_d) ELSE newArgs

\* `if !foundD { newArgs = append([]string{"-d"}, newArgs...) }`
ForceDetach(foundD, newArgs) == IF ~foundD THEN <<T_d>> \o newArgs ELSE newArgs

setupEnvironment(ctx, env) ==
    LET adv      == ctx.Notify /\ Len(ctx.NotifySocket) > 0
        sockArgs == IF adv
                    THEN <<T_e, S_NOTIFY \o ctx.NotifySocket,
                           T_v, ctx.NotifySocket \o <<":">> \o ctx.NotifySocket>>
                    ELSE <<>>
        envArgs  == IF ctx.Env THEN EnvFlags(env, 1) ELSE <<>>
        newArgs  == sockArgs \o envArgs
    IN  [ctx EXCEPT !.Notify = adv,
                    !.Args = IF Len(newArgs) > 0 THEN newArgs \o ctx.Args ELSE ctx.Args]

\* the result: [ok, ctx]
parseContext(a, sock, env) ==
    LET i == findRunArg(a) IN
    IF i < 0 THEN [ok |-> FALSE, ctx |-> ZeroContext]
    ELSE
      LET ownArgs == SubSeq(a, 1, i)
          runArgs == SubSeq(a, i + 2, Len(a))
          fl == FlagsParse(ownArgs, 1,
                  [Notify |-> FALSE, Env |-> FALSE, Logs |-> TRUE, PidFile |-> <<>>, bad |-> FALSE])
          sc == ScanRunArgs(runArgs, 1,
                  [Rm |-> FALSE, foundD |-> FALSE, name |-> <<>>, newArgs |-> <<>>])
          ctx == [ZeroContext EXCEPT
                    !.Logs = fl.Logs, !.Notify = fl.Notify, !.Env = fl.Env,
                    !.PidFile = fl.PidFile, !.Rm = sc.Rm, !.Name = sc.name,
                    !.NotifySocket = sock,
                    !.Args = ForceDetach(sc.foundD, sc.newArgs)]
      IN IF fl.bad THEN [ok |-> FALSE, ctx |-> ZeroContext]
         ELSE [ok |-> TRUE, ctx |-> setupEnvironment(ctx, env)]

----------------------------------------------------------------------------
(* The inputs of an invocation *)

MaxRunArgs == 2

RunTokens == {T_rm, T_d, T_nameWeb, T_img}

RECURSIVE SeqsUpTo(_, _)
SeqsUpTo(S, n) == IF n = 0 THEN {<<>>}
                  ELSE LET P == SeqsUpTo(S, n - 1)
                       IN  P \cup {Append(s, x) : s \in P, x \in S}

OwnVectors ==
    {a \o b \o d : a \in {<<>>, <<T_n>>}, b \in {<<>>, <<T_nologs>>},
                   d \in {<<>>, <<T_p, T_pidpath>>}}

ArgVectors ==
    {own \o <<T_run>> \o run : own \in OwnVectors, run \in SeqsUpTo(RunTokens, MaxRunArgs)}
    \cup {<<T_bad, T_run, T_img>>, <<T_img>>, <<>>}

----------------------------------------------------------------------------
(* The container runtime and the process table *)

CIdSeq == <<"c1", "c2", "c3", "c4", "c5">>

CIds == {CIdSeq[i] : i \in 1..Len(CIdSeq)}

\* the host pid of the main process of container id when it is started for
\* the (gen+1)-th time: every start gets a pid of its own
PidOf(id, gen) == 100 + 10 * gen + (CHOOSE i \in 1..Len(CIdSeq) : CIdSeq[i] = id)

Absent == [state |-> "absent", name |-> <<>>, pid |-> 0, gen |-> 0, exit |-> 0]

Exists(id) == containers[id].state \in {"running", "stopped"}

\* InspectContainer(name): the ids the name resolves to (none or one)
ByName(n) == {id \in CIds : Exists(id) /\ containers[id].name = n}

\* what InspectContainer returns for id: ID, State.Running, State.Pid
Inspected(id) == [found |-> TRUE, ID |-> id,
                  Running |-> containers[id].state = "running",
                  Pid |-> containers[id].pid]

NoContainer == [found |-> FALSE, ID |-> "", Running |-> FALSE, Pid |-> 0]

\* the first id the runtime has not used yet
FreshId == CIdSeq[CHOOSE i \in 1..Len(CIdSeq) :
                    /\ containers[CIdSeq[i]].state = "absent"
                    /\ \A j \in 1..(i-1) : containers[CIdSeq[j]].state # "absent"]

HasFresh == \E id \in CIds : containers[id].state = "absent"

\* flags of `docker run` that take the next token as their value
ValueFlags == {T_e, T_v, T_name, T_name1}

\* the name `docker run` gives the container: the --name among the options
\* that precede the image
RECURSIVE RuntimeName(_, _, _)
RuntimeName(a, i, nm) ==
    IF i > Len(a) THEN nm
    ELSE IF ~HasPrefix(a[i], <<"-">>) THEN nm
    ELSE IF (HasPrefix(a[i], T_name) \/ HasPrefix(a[i], T_name1)) /\ Contains(a[i], "=")
         THEN RuntimeName(a, i + 1, AfterEq(a[i]))
    ELSE IF a[i] \in ValueFlags
         THEN RuntimeName(a, i + 2,
                 IF a[i] \in {T_name, T_name1} /\ i < Len(a) THEN a[i + 1] ELSE nm)
    ELSE RuntimeName(a, i + 1, nm)

\* how many of the options `docker run` parses, those that precede the image,
\* ask for a detached container
RECURSIVE DetachOptions(_, _)
DetachOptions(a, i) ==
    IF i > Len(a) THEN 0
    ELSE IF ~HasPrefix(a[i], <<"-">>) THEN 0
    ELSE IF a[i] \in ValueFlags THEN DetachOptions(a, i + 2)
    ELSE (IF IsDetach(a[i]) THEN 1 ELSE 0) + DetachOptions(a, i + 1)

\* the runtimes an invocation may find: no container, or container c1 named
\* web, running (with the pid it reports) or stopped
Worlds ==
    {[cs |-> [id \in CIds |-> Absent], ps |-> {}]}
    \cup {[cs |-> [id \in CIds |-> IF id = "c1"
                       THEN [state |-> "running", name |-> T_web, pid |-> p, gen |-> 1, exit |-> 0]
                       ELSE Absent],
           ps |-> IF p > 0 THEN {p} ELSE {}] : p \in {PidOf("c1", 0), 0, -1}}
    \cup {[cs |-> [id \in CIds |-> IF id = "c1"
                       THEN [state |-> "stopped", name |-> T_web, pid |-> 0, gen |-> 1, exit |-> 0]
                       ELSE Absent],
           ps |-> {}]}

\* no invocation before this one
NoResult == [ok |-> FALSE, Id |-> "", Pid |-> 0]

\* keepAlive has not inspected and has not waited
NoPoll == [last |-> "none", waited |-> FALSE]

NoFile == [exists |-> FALSE, content |-> <<>>]

Init ==
    /\ args \in ArgVectors
    /\ notifyEnv \in {<<>>, T_sock}
    /\ clientOk \in BOOLEAN
    /\ \E w \in Worlds : containers = w.cs /\ procs = w.ps
    /\ c = ZeroContext
    /\ pc = "parse"
    /\ err = ""
    /\ failedAt = ""
    /\ container = NoContainer
    /\ sent = <<>>
    /\ checks = <<>>
    /\ ops = <<>>
    /\ files \in {NoFile, [exists |-> TRUE, content |-> <<"9", "9">>]}
    /\ relay = "none"
    /\ poll = NoPoll
    /\ environ = Environ
    /\ invocation = 1
    /\ prev = NoResult

----------------------------------------------------------------------------
(* mainWithArgs: the stages and what an error does *)

Stage(p) ==
    CASE p = "parse" -> "parse"
      [] p \in {"lookup", "lookup_remove", "lookup_start", "lookup_reinspect",
                "launch_run", "launch_pid"} -> "run"
      [] p \in {"notify_check1", "notify_send", "notify_check2"} -> "notify"
      [] p = "pidfile" -> "pidfile"
      [] p = "pipelogs" -> "pipelogs"
      [] p \in {"keepalive", "ka_inspect", "ka_wait"} -> "supervise"
      [] p = "rm" -> "cleanup"
      [] OTHER -> "end"

\* an error of notify, pidFile or keepAlive falling through to rmContainer
AbortTo_Cleanup(stage) ==
    IF stage \in {"notify", "pidfile", "supervise"} THEN "rm" ELSE "failed"

\* `if err != nil { return c, err }`: where the main goroutine goes when the
\* stage returns an error
AbortTo(stage) == "failed"

Fail(kind) ==
    /\ pc' = AbortTo(Stage(pc))
    /\ err' = kind
    /\ failedAt' = Stage(pc)

Parse ==
    /\ pc = "parse"
    /\ LET r == parseContext(args, notifyEnv, environ) IN
       \/ /\ ~r.ok
          /\ Fail("UsageError")
          /\ UNCHANGED c
       \/ /\ r.ok
          /\ c' = r.ctx
          /\ pc' = IF Len(r.ctx.Name) > 0 THEN "lookup" ELSE "launch_run"
          /\ UNCHANGED <<err, failedAt>>
    /\ UNCHANGED inputs
    /\ UNCHANGED poll
    /\ UNCHANGED <<container, containers, procs,
                   sent, checks, ops, files, relay>>

----------------------------------------------------------------------------
(* runContainer: lookupNamedContainer, launchContainer, getContainerPid *)

\* an entry of ops: the operation, the container it names, its outcome and the
\* pid it reported, and the stage that issued it
Op(name, id, res, pid) == [op |-> name, id |-> id, res |-> res, pid |-> pid, at |-> Stage(pc)]

\* the outcome of an InspectContainer that found a container
Seen(found) == IF found.Running THEN "running" ELSE "stopped"

\* the adoption without its second assignment
Adopt_IdOnly(ctx, found) == [ctx EXCEPT !.Id = found.ID]

\* c.Id = container.ID; c.Pid = container.State.Pid
Adopt(ctx, found) == [ctx EXCEPT !.Id = found.ID, !.Pid = found.Pid]

\* runContainer launching whether or not the lookup set c.Id
NeedsLaunch_Always(ctx) == TRUE

\* `if len(c.Id) == 0`: whether runContainer goes on to launchContainer
NeedsLaunch(ctx) == ctx.Id = ""

\* `if c.Pid == 0`: runContainer's last check
PidRejected(pid) == pid = 0

\* what runContainer does once lookupNamedContainer returned nil with context ctx
AfterLookup(ctx) ==
    IF NeedsLaunch(ctx)
    THEN pc' = "launch_run" /\ UNCHANGED <<err, failedAt>>
    ELSE IF PidRejected(ctx.Pid)
         THEN Fail("InvalidState")
         ELSE pc' = "notify_check1" /\ UNCHANGED <<err, failedAt>>

\* the auto-remove test made before the test of State.Running
LookupBranch_RmFirst(found, ctx) ==
    IF ctx.Rm THEN "remove"
    ELSE IF found.Running THEN "adopt"
    ELSE "start"

\* which branch lookupNamedContainer takes on the container it found
LookupBranch(found, ctx) ==
    IF found.Running THEN "adopt"
    ELSE IF ctx.Rm THEN "remove"
    ELSE "start"

\* getClient, then InspectContainer(c.Name), then the branch on State.Running
LookupInspect ==
    /\ pc = "lookup"
    /\ \/ /\ ~clientOk
          /\ Fail("RuntimeError")
          /\ UNCHANGED <<c, container, ops>>
       \/ /\ clientOk
          /\ Fail("RuntimeError")
          /\ ops' = Append(ops, Op("inspect", "", "error", 0))
          /\ UNCHANGED <<c, container>>
       \/ /\ clientOk
          /\ ByName(c.Name) = {}
          /\ ops' = Append(ops, Op("inspect", "", "notfound", 0))
          /\ AfterLookup(c)
          /\ UNCHANGED <<c, container>>
       \/ /\ clientOk
          /\ \E id \in ByName(c.Name) :
               LET found == Inspected(id)
                   br    == LookupBranch(found, c)
                   seen  == Op("inspect", id, Seen(found), found.Pid)
               IN  /\ container' = found
                   /\ IF br = "adopt"
                      THEN LET ctx == Adopt(c, found)
                           IN  /\ c' = ctx
                               /\ ops' = ops \o <<seen, Op("adopt", ctx.Id, "ok", ctx.Pid)>>
                               /\ AfterLookup(ctx)
                      ELSE /\ ops' = Append(ops, seen)
                           /\ pc' = IF br = "remove" THEN "lookup_remove" ELSE "lookup_start"
                           /\ UNCHANGED <<c, err, failedAt>>
    /\ UNCHANGED inputs
    /\ UNCHANGED poll
    /\ UNCHANGED <<containers, procs, sent, checks,
                   files, relay>>

\* the runtime after RemoveContainer{ID: id, Force: true}
Removed(id) ==
    [containers EXCEPT ![id] = [state |-> "removed", name |-> <<>>, pid |-> 0, gen |-> 0,
                                exit |-> containers[id].exit]]

\* `return client.RemoveContainer(...)` on the stopped container, autoRemove set
LookupRemove ==
    /\ pc = "lookup_remove"
    /\ \/ /\ ops' = Append(ops, Op("remove", container.ID, "error", 0))
          /\ Fail("RuntimeError")
          /\ UNCHANGED <<containers, procs>>
       \/ /\ Exists(container.ID)
          /\ ops' = Append(ops, Op("remove", container.ID, "ok", 0))
          /\ containers' = Removed(container.ID)
          /\ procs' = procs \ {containers[container.ID].pid}
          /\ AfterLookup(c)
    /\ UNCHANGED inputs
    /\ UNCHANGED poll
    /\ UNCHANGED <<c, container, sent, checks, files, relay>>

\* the runtime after container id is started
Started(id) ==
    [containers EXCEPT ![id].state = "running",
                       ![id].pid = PidOf(id, containers[id].gen),
                       ![id].gen = containers[id].gen + 1,
                       ![id].exit = 0]

\* client.StartContainer(container.ID, container.HostConfig)
LookupStart ==
    /\ pc = "lookup_start"
    /\ \/ /\ ops' = Append(ops, Op("start", container.ID, "error", 0))
          /\ Fail("RuntimeError")
          /\ UNCHANGED <<containers, procs>>
       \/ /\ Exists(container.ID)
          /\ ops' = Append(ops, Op("start", container.ID, "ok", 0))
          /\ containers' = Started(container.ID)
          /\ procs' = procs \cup {Started(container.ID)[container.ID].pid}
          /\ pc' = "lookup_reinspect"
          /\ UNCHANGED <<err, failedAt>>
    /\ UNCHANGED inputs
    /\ UNCHANGED poll
    /\ UNCHANGED <<c, container, sent, checks, files, relay>>

\* the second InspectContainer(c.Name), and the adoption of its ID and pid
LookupReinspect ==
    /\ pc = "lookup_reinspect"
    /\ \/ /\ ops' = Append(ops, Op("inspect", "", "error", 0))
          /\ Fail("RuntimeError")
          /\ UNCHANGED <<c, container>>
       \/ \E id \in ByName(c.Name) :
            LET found == Inspected(id)
                ctx   == Adopt(c, found)
            IN  /\ container' = found
                /\ ops' = ops \o <<Op("inspect", id, Seen(found), found.Pid),
                                   Op("adopt", ctx.Id, "ok", ctx.Pid)>>
                /\ c' = ctx
                /\ AfterLookup(ctx)
    /\ UNCHANGED inputs
    /\ UNCHANGED poll
    /\ UNCHANGED <<containers, procs, sent, checks,
                   files, relay>>

\* whether the runtime accepts a new container of that name
NameFree(n) == Len(n) = 0 \/ ByName(n) = {}

\* exec.Command("docker", "run", c.Args...): Start, ReadAll of its stdout, Wait.
\* The command fails before it creates anything, or after it created a
\* container it could not start (it prints no id then), or it succeeds.
LaunchRun ==
    /\ pc = "launch_run"
    /\ \/ /\ ops' = Append(ops, Op("run", "", "error", 0))
          /\ Fail("RuntimeError")
          /\ UNCHANGED <<c, containers, procs>>
       \/ /\ HasFresh
          /\ NameFree(RuntimeName(c.Args, 1, <<>>))
          /\ ops' = Append(ops, Op("run", "", "error", 0))
          /\ containers' = [containers EXCEPT ![FreshId] =
                 [state |-> "stopped", name |-> RuntimeName(c.Args, 1, <<>>),
                  pid |-> 0, gen |-> 0, exit |-> 0]]
          /\ Fail("RuntimeError")
          /\ UNCHANGED <<c, procs>>
       \/ /\ HasFresh
          /\ NameFree(RuntimeName(c.Args, 1, <<>>))
          /\ LET id == FreshId IN
             /\ ops' = Append(ops, Op("run", id, "ok", 0))
             /\ containers' = [containers EXCEPT ![id] =
                    [state |-> "running", name |-> RuntimeName(c.Args, 1, <<>>),
                     pid |-> PidOf(id, 0), gen |-> 1, exit |-> 0]]
             /\ procs' = procs \cup {PidOf(id, 0)}
             /\ c' = [c EXCEPT !.Id = id]
          /\ pc' = "launch_pid"
          /\ UNCHANGED <<err, failedAt>>
    /\ UNCHANGED inputs
    /\ UNCHANGED poll
    /\ UNCHANGED <<container, sent, checks, files, relay>>

\* `container.State.Pid <= 0` of getContainerPid
PidInvalid(pid) == pid <= 0

\* c.Pid, err = getContainerPid(c), then runContainer's check of c.Pid
LaunchPid ==
    /\ pc = "launch_pid"
    /\ \/ /\ ~clientOk
          /\ Fail("RuntimeError")
          /\ UNCHANGED <<c, ops>>
       \/ /\ clientOk
          /\ ops' = Append(ops, Op("inspect", c.Id, "error", 0))
          /\ Fail("RuntimeError")
          /\ UNCHANGED c
       \/ /\ clientOk
          /\ Exists(c.Id)
          /\ LET found == Inspected(c.Id) IN
             /\ ops' = Append(ops, Op("inspect", c.Id, Seen(found), found.Pid))
             /\ IF PidInvalid(found.Pid)
                THEN Fail("InvalidState") /\ UNCHANGED c
                ELSE LET ctx == [c EXCEPT !.Pid = found.Pid]
                     IN  /\ c' = ctx
                         /\ IF PidRejected(ctx.Pid)
                            THEN Fail("InvalidState")
                            ELSE pc' = "notify_check1" /\ UNCHANGED <<err, failedAt>>
    /\ UNCHANGED inputs
    /\ UNCHANGED poll
    /\ UNCHANGED <<container, containers, procs, sent,
                   checks, files, relay>>

----------------------------------------------------------------------------
(* notify *)

\* pidDied with the test of the Stat error lost
pidDied_Never(pid) == FALSE

\* os.Stat("/proc/<pid>") reports that the entry does not exist
pidDied(pid) == pid \notin procs

\* fmt.Sprintf("MAINPID=%d", os.Getpid())
FallbackMsg == S_MAINPID \o Itoa(SelfPid)

\* the first MAINPID datagram naming the proxy instead of the container
MainPidMsg_Self(ctx) == FallbackMsg

\* fmt.Sprintf("MAINPID=%d", c.Pid)
MainPidMsg(ctx) == S_MAINPID \o Itoa(ctx.Pid)

\* READY=1 sent whatever c.Notify says
SendsReady_Always(ctx) == TRUE

\* `if !c.Notify`: whether notify sends READY=1 itself
SendsReady(ctx) == ~ctx.Notify

\* the first check handing the main pid back to the proxy as the second does
NotifyCheck1_Fallback ==
    /\ pc = "notify_check1"
    /\ LET died == pidDied(c.Pid) IN
       /\ checks' = Append(checks, died)
       /\ IF died
          THEN /\ sent' = Append(sent, [msg |-> FallbackMsg, ok |-> TRUE])
               /\ Fail("EarlyExit")
          ELSE /\ pc' = IF Len(c.NotifySocket) = 0 THEN "pidfile" ELSE "notify_send"
               /\ UNCHANGED <<sent, err, failedAt>>
    /\ UNCHANGED inputs
    /\ UNCHANGED poll
    /\ UNCHANGED <<c, container, containers, procs,
                   ops, files, relay>>

\* the first pidDied check and the check of the socket path
NotifyCheck1 ==
    /\ pc = "notify_check1"
    /\ LET died == pidDied(c.Pid) IN
       /\ checks' = Append(checks, died)
       /\ IF died THEN Fail("EarlyExit")
          ELSE /\ pc' = IF Len(c.NotifySocket) = 0 THEN "pidfile" ELSE "notify_send"
               /\ UNCHANGED <<err, failedAt>>
    /\ UNCHANGED inputs
    /\ UNCHANGED poll
    /\ UNCHANGED <<c, container, containers, procs,
                   sent, ops, files, relay>>

\* net.Dial("unixgram", c.NotifySocket) and the write of MAINPID=<c.Pid>
NotifySend ==
    /\ pc = "notify_send"
    /\ \/ /\ Fail("NotifyError")
          /\ UNCHANGED sent
       \/ /\ sent' = Append(sent, [msg |-> MainPidMsg(c), ok |-> FALSE])
          /\ Fail("NotifyError")
       \/ /\ sent' = Append(sent, [msg |-> MainPidMsg(c), ok |-> TRUE])
          /\ pc' = "notify_check2"
          /\ UNCHANGED <<err, failedAt>>
    /\ UNCHANGED inputs
    /\ UNCHANGED poll
    /\ UNCHANGED <<c, container, containers, procs,
                   checks, ops, files, relay>>

\* the second pidDied check, the fallback write, and the write of READY=1
NotifyCheck2 ==
    /\ pc = "notify_check2"
    /\ LET died == pidDied(c.Pid) IN
       /\ checks' = Append(checks, died)
       /\ IF died
          THEN /\ \E ok \in BOOLEAN : sent' = Append(sent, [msg |-> FallbackMsg, ok |-> ok])
               /\ Fail("EarlyExit")
          ELSE IF SendsReady(c)
               THEN \/ /\ sent' = Append(sent, [msg |-> S_READY, ok |-> FALSE])
                       /\ Fail("NotifyError")
                    \/ /\ sent' = Append(sent, [msg |-> S_READY, ok |-> TRUE])
                       /\ pc' = "pidfile"
                       /\ UNCHANGED <<err, failedAt>>
               ELSE /\ pc' = "pidfile"
                    /\ UNCHANGED <<sent, err, failedAt>>
    /\ UNCHANGED inputs
    /\ UNCHANGED poll
    /\ UNCHANGED <<c, container, containers, procs,
                   ops, files, relay>>

----------------------------------------------------------------------------
(* pidFile, pipeLogs, keepAlive, rmContainer *)

\* the test of pidFile, with a mistake: the path is not looked at
PidFileSkipped_PidOnly(ctx) == ctx.Pid <= 0

\* `len(c.PidFile) == 0 || c.Pid <= 0`: pidFile writes nothing
PidFileSkipped(ctx) == Len(ctx.PidFile) = 0 \/ ctx.Pid <= 0

\* ioutil.WriteFile(c.PidFile, []byte(strconv.Itoa(c.Pid)), 0644)
PidFile ==
    /\ pc = "pidfile"
    /\ \/ /\ PidFileSkipped(c)
          /\ pc' = "pipelogs"
          /\ UNCHANGED <<files, err, failedAt>>
       \/ /\ ~PidFileSkipped(c)
          /\ Fail("IOError")
          /\ UNCHANGED files
       \/ /\ ~PidFileSkipped(c)
          /\ files' = [exists |-> TRUE, content |-> Itoa(c.Pid)]
          /\ pc' = "pipelogs"
          /\ UNCHANGED <<err, failedAt>>
    /\ UNCHANGED inputs
    /\ UNCHANGED poll
    /\ UNCHANGED <<c, container, containers, procs,
                   sent, checks, ops, relay>>

\* `go pipeLogs(c)`, with a mistake: the goroutine is started ahead of notify
StartRelay_Early ==
    /\ pc = "notify_check1"
    /\ relay = "none"
    /\ relay' = "started"
    /\ UNCHANGED vars_but_relay

\* `go pipeLogs(c)`
StartRelay ==
    /\ pc = "pipelogs"
    /\ relay' = "started"
    /\ pc' = "keepalive"
    /\ UNCHANGED inputs
    /\ UNCHANGED poll
    /\ UNCHANGED <<c, err, failedAt, container,
                   containers, procs, sent, checks, ops, files>>

\* whether the process is still there for its goroutines to run
Alive == pc \notin {"done", "failed"}

\* pipeLogs up to its call of client.Logs
RelayRun ==
    /\ Alive
    /\ relay = "started"
    /\ relay' = IF ~c.Logs THEN "returned"
                ELSE IF ~clientOk THEN "failed"
                ELSE "streaming"
    /\ UNCHANGED inputs
    /\ UNCHANGED poll
    /\ UNCHANGED <<c, pc, err, failedAt, container,
                   containers, procs, sent, checks, ops, files>>

\* client.Logs returns, with a mistake: its error ends the process
RelayEnd_Fatal ==
    /\ Alive
    /\ relay = "streaming"
    /\ \/ relay' = "returned" /\ UNCHANGED <<pc, err, failedAt>>
       \/ relay' = "failed" /\ Fail("RuntimeError")
    /\ UNCHANGED inputs
    /\ UNCHANGED poll
    /\ UNCHANGED <<c, container, containers, procs, sent, checks, ops, files>>

\* client.Logs returns: the stream was closed, or it failed
RelayEnd ==
    /\ Alive
    /\ relay = "streaming"
    /\ relay' \in {"returned", "failed"}
    /\ UNCHANGED inputs
    /\ UNCHANGED poll
    /\ UNCHANGED <<c, pc, err, failedAt, container,
                   containers, procs, sent, checks, ops, files>>

\* `if c.Logs || c.Rm`, with a mistake: auto-remove alone does not make it poll
Supervises_LogsOnly(ctx) == ctx.Logs

\* `if c.Logs || c.Rm`: whether keepAlive polls at all
Supervises(ctx) == ctx.Logs \/ ctx.Rm

\* the loop's branch on State.Running, with a mistake: it waits again on a
\* container that is not running
LoopNext_Spin(running) == "ka_wait"

\* the loop's branch on State.Running, with a mistake: it returns nil on a
\* container that is running
LoopNext_Return(running) == "rm"

\* `if container.State.Running { client.WaitContainer(c.Id) } else { return nil }`
LoopNext(running) == IF running THEN "ka_wait" ELSE "rm"

\* keepAlive up to its loop
KeepAlive ==
    /\ pc = "keepalive"
    /\ IF ~Supervises(c) THEN pc' = "rm" /\ UNCHANGED <<err, failedAt>>
       ELSE IF ~clientOk THEN Fail("RuntimeError")
       ELSE pc' = "ka_inspect" /\ UNCHANGED <<err, failedAt>>
    /\ UNCHANGED inputs
    /\ UNCHANGED poll
    /\ UNCHANGED <<c, container, containers, procs,
                   sent, checks, ops, files, relay>>

\* one InspectContainer(c.Id) of the loop and the branch on State.Running
KeepAliveInspect ==
    /\ pc = "ka_inspect"
    /\ \/ /\ Fail("RuntimeError")
          /\ poll' = [poll EXCEPT !.last = "error"]
       \/ /\ Exists(c.Id)
          /\ pc' = LoopNext(Inspected(c.Id).Running)
          /\ poll' = [poll EXCEPT !.last = IF Inspected(c.Id).Running
                                            THEN "running" ELSE "stopped"]
          /\ UNCHANGED <<err, failedAt>>
    /\ UNCHANGED inputs
    /\ UNCHANGED <<c, container, containers, procs,
                   sent, checks, ops, files, relay>>

\* client.WaitContainer(c.Id) returns: the container exited, or the call failed
KeepAliveWait ==
    /\ pc = "ka_wait"
    /\ \E failed \in BOOLEAN : failed \/ ~Exists(c.Id) \/ containers[c.Id].state # "running"
    /\ pc' = "ka_inspect"
    /\ poll' = [poll EXCEPT !.waited = TRUE]
    /\ UNCHANGED inputs
    /\ UNCHANGED <<c, err, failedAt, container,
                   containers, procs, sent, checks, ops, files, relay>>

\* `if !c.Rm`, with a mistake: a container that exited with an error is kept
RemovesAtExit_CleanOnly(ctx, code) == ctx.Rm /\ code = 0

\* `if !c.Rm { return nil }`: rmContainer does not look at the exit status
RemovesAtExit(ctx, code) == ctx.Rm

\* rmContainer, and the return of mainWithArgs
RmContainer ==
    /\ pc = "rm"
    /\ IF ~RemovesAtExit(c, containers[c.Id].exit)
       THEN /\ pc' = "done"
            /\ UNCHANGED <<err, failedAt, ops, containers, procs>>
       ELSE IF ~clientOk
       THEN Fail("RuntimeError") /\ UNCHANGED <<ops, containers, procs>>
       ELSE \/ /\ ops' = Append(ops, Op("remove", c.Id, "error", 0))
               /\ Fail("RuntimeError")
               /\ UNCHANGED <<containers, procs>>
            \/ /\ Exists(c.Id)
               /\ ops' = Append(ops, Op("remove", c.Id, "ok", 0))
               /\ containers' = Removed(c.Id)
               /\ procs' = procs \ {containers[c.Id].pid}
               /\ pc' = "done"
               /\ UNCHANGED <<err, failedAt>>
    /\ UNCHANGED inputs
    /\ UNCHANGED poll
    /\ UNCHANGED <<c, container, sent, checks, files, relay>>

----------------------------------------------------------------------------
(* The environment *)

\* the exit statuses a container's main process ends with
ExitCodes == {0, 1}

\* the main process of a running container exits
ContainerExit(id) ==
    /\ containers[id].state = "running"
    /\ \E code \in ExitCodes :
          containers' = [containers EXCEPT ![id].state = "stopped", ![id].pid = 0,
                                           ![id].exit = code]
    /\ procs' = procs \ {containers[id].pid}
    /\ UNCHANGED inputs
    /\ UNCHANGED poll
    /\ UNCHANGED <<c, pc, err, failedAt, container,
                   sent, checks, ops, files, relay>>

Next ==
    \/ Parse
    \/ LookupInspect
    \/ LookupRemove
    \/ LookupStart
    \/ LookupReinspect
    \/ LaunchRun
    \/ LaunchPid
    \/ NotifyCheck1
    \/ NotifySend
    \/ NotifyCheck2
    \/ PidFile
    \/ StartRelay
    \/ RelayRun
    \/ RelayEnd
    \/ KeepAlive
    \/ KeepAliveInspect
    \/ KeepAliveWait
    \/ RmContainer
    \/ \E id \in CIds : ContainerExit(id)

Spec == Init /\ [][Next]_vars

----------------------------------------------------------------------------
(* The supervisor running the proxy again with the same command line *)

MaxInvocations == 2

\* runContainer has returned nil and mainWithArgs has gone on
RunReturnedNil ==
    \/ Stage(pc) \in {"notify", "pidfile", "pipelogs", "supervise", "cleanup"}
    \/ pc = "done"
    \/ failedAt \in {"notify", "pidfile", "pipelogs", "supervise", "cleanup"}

\* command lines that name the container web, with and without --rm and
\* with and without the log relay
TwiceArgs ==
    {own \o <<T_run>> \o run : own \in {<<>>, <<T_nologs>>},
                               run \in {<<T_nameWeb, T_img>>, <<T_rm, T_nameWeb>>}}
    \cup {<<T_img>>}

InitTwice == Init /\ args \in TwiceArgs

\* main() returned or died in log.Fatal, and main() is entered again
Reinvoke ==
    /\ pc \in {"done", "failed"}
    /\ invocation < MaxInvocations
    /\ invocation' = invocation + 1
    /\ prev' = [ok |-> RunReturnedNil, Id |-> c.Id, Pid |-> c.Pid]
    /\ c' = ZeroContext
    /\ pc' = "parse"
    /\ err' = ""
    /\ failedAt' = ""
    /\ container' = NoContainer
    /\ sent' = <<>>
    /\ checks' = <<>>
    /\ ops' = <<>>
    /\ relay' = "none"
    /\ poll' = NoPoll
    /\ UNCHANGED <<args, notifyEnv, clientOk, environ, containers, procs, files>>

NextTwice == Next \/ Reinvoke

SpecTwice == InitTwice /\ [][NextTwice]_vars

----------------------------------------------------------------------------
(* The runtime starting a container again while the proxy supervises it *)

MaxRestarts == 1

\* a restart policy of the runtime, or an operator, starts the stopped
\* container again: it runs under a new pid
ContainerRestart(id) ==
    /\ containers[id].state = "stopped"
    /\ containers[id].gen <= MaxRestarts
    /\ containers' = Started(id)
    /\ procs' = procs \cup {PidOf(id, containers[id].gen)}
    /\ UNCHANGED inputs
    /\ UNCHANGED poll
    /\ UNCHANGED <<c, pc, err, failedAt, container,
                   sent, checks, ops, files, relay>>

InitSupervise == Init /\ args \in TwiceArgs

NextSupervise == Next \/ \E id \in CIds : ContainerRestart(id)

SpecSupervise == InitSupervise /\ [][NextSupervise]_vars

\* the steps of the main goroutine from keepAlive on: the Go scheduler runs
\* the goroutine whenever it can go on, and a call to the runtime returns
SuperviseFairness ==
    /\ WF_vars(KeepAlive)
    /\ WF_vars(KeepAliveInspect)
    /\ WF_vars(KeepAliveWait)
    /\ WF_vars(RmContainer)

SpecSuperviseFair == SpecSupervise /\ SuperviseFairness

----------------------------------------------------------------------------
(* parseContext alone, on more argument vectors and environments *)

MaxParseArgs == 3

MaxEnviron == 2

ParseTokens == {T_rm, T_rm1, T_d, T_detach, T_detach1, T_nameWeb, T_name, T_web, T_img}

ParseOwn == {<<>>, <<T_n>>, <<T_e>>, <<T_env, T_nologs>>}

EnvEntries ==
    {S_HOME \o <<"/", "r">>, S_PATH \o <<"/", "b">>, <<"F", "O", "O", "=", "b", "a", "r">>,
     <<"H", "O", "M", "E", "R", "=", "1">>}

InitParse ==
    /\ \/ /\ args \in {own \o <<T_run>> \o run :
                           own \in ParseOwn, run \in SeqsUpTo(ParseTokens, MaxParseArgs)}
          /\ environ = Environ
       \/ /\ args \in {own \o <<T_run>> \o run :
                           own \in ParseOwn, run \in {<<T_img>>, <<T_rm, T_img>>, <<T_d, T_img>>}}
          /\ environ \in SeqsUpTo(EnvEntries, MaxEnviron)
    /\ notifyEnv \in {<<>>, T_sock}
    /\ clientOk = TRUE
    /\ containers = [id \in CIds |-> Absent]
    /\ procs = {}
    /\ c = ZeroContext
    /\ pc = "parse"
    /\ err = ""
    /\ failedAt = ""
    /\ container = NoContainer
    /\ sent = <<>>
    /\ checks = <<>>
    /\ ops = <<>>
    /\ files = NoFile
    /\ relay = "none"
    /\ poll = NoPoll
    /\ invocation = 1
    /\ prev = NoResult

SpecParse == InitParse /\ [][Parse]_vars

----------------------------------------------------------------------------
(* The notification handshake *)

\* the stage notify has returned nil and mainWithArgs has gone on
NotifyReturnedNil ==
    \/ Stage(pc) \in {"pidfile", "pipelogs", "supervise", "cleanup"}
    \/ pc = "done"
    \/ failedAt \in {"pidfile", "pipelogs", "supervise", "cleanup"}

ReadyAttempted == \E i \in 1..Len(sent) : sent[i].msg = S_READY

\* the text of MAINPID=<pid>, digit by digit, for the pids in use: the proxy's
\* own, 0, -1 and the three-digit pids of containers
MainPidText(pid) ==
    S_MAINPID \o
    (CASE pid = 7  -> <<"7">>
       [] pid = 0  -> <<"0">>
       [] pid = -1 -> <<"-", "1">>
       [] pid >= 100 /\ pid <= 999 ->
            <<DigitChar(pid \div 100), DigitChar((pid \div 10) % 10), DigitChar(pid % 10)>>)

\* C1: when the container's main process is dead at one of notify's two
\* liveness checks, notify returns the early-exit error, and an invocation that
\* ended with that error has attempted no READY=1, whatever the socket path
\* and the notify flag are.
C1_DeadAtHandshake ==
    /\ [][(/\ pc \in {"notify_check1", "notify_check2"}
           /\ pc' # pc
           /\ c.Pid \notin procs)
          => (pc' = "failed" /\ err' = "EarlyExit" /\ failedAt' = "notify")]_vars
    /\ [](err = "EarlyExit" => pc = "failed" /\ ~ReadyAttempted)
    /\ [][err = "EarlyExit" => sent' = sent]_vars

\* the pid died between the two checks, with a socket configured
C1_Witness ==
    /\ err = "EarlyExit"
    /\ checks = <<FALSE, TRUE>>
    /\ Len(sent) = 2
    /\ c.Pid \notin procs

\* -n or --notify among the proxy's own flags
NotifyRequested ==
    \E i \in 1..Len(args) : i <= findRunArg(args) /\ args[i] \in {T_n, T_notify}

\* parseContext has returned a context
Parsed == pc # "parse" /\ failedAt # "parse"

\* C2: with a socket configured, the advanced contract not requested and the
\* pid alive at both checks, a handshake that completes has sent exactly
\* MAINPID=<hostPid> and then READY=1; in every state a READY=1 is the second
\* datagram and follows a MAINPID=<hostPid> whose write succeeded, and as long
\* as no check found the pid dead the writes attempted are an initial part of
\* that pair, only the last of them possibly failed.
C2_MainPidThenReady ==
    LET m == [msg |-> MainPidText(c.Pid), ok |-> TRUE]
        r == [msg |-> S_READY, ok |-> TRUE]
    IN  /\ (NotifyReturnedNil /\ Len(c.NotifySocket) > 0 /\ ~NotifyRequested)
              => (sent = <<m, r>> /\ checks = <<FALSE, FALSE>>)
        /\ \A i \in 1..Len(sent) : sent[i].msg = S_READY => (i = 2 /\ sent[1] = m)
        /\ (Len(c.NotifySocket) > 0 /\ ~NotifyRequested /\ \A k \in 1..Len(checks) : ~checks[k])
              => /\ Len(sent) <= 2
                 /\ \A i \in 1..Len(sent) :
                       /\ sent[i].msg = <<m, r>>[i].msg
                       /\ i < Len(sent) => sent[i].ok

\* a completed invocation that sent both datagrams for a launched container
C2_Witness ==
    /\ pc = "done"
    /\ ~NotifyRequested
    /\ sent = <<[msg |-> MainPidText(102), ok |-> TRUE], [msg |-> S_READY, ok |-> TRUE]>>
    /\ c.Pid = 102

\* C3: the proxy sends READY=1 exactly when the advanced contract is not in
\* effect: requested with a socket path, the contract stays on and no READY=1
\* is attempted; requested without a socket path, it is switched off and
\* nothing is sent; a READY=1 is only ever attempted with the contract off, and
\* a handshake that completes over a socket with the contract off has sent it.
C3_ReadyIffNoContract ==
    Parsed =>
      /\ c.Notify = (NotifyRequested /\ Len(notifyEnv) > 0)
      /\ (NotifyRequested /\ Len(notifyEnv) > 0) => ~ReadyAttempted
      /\ (NotifyRequested /\ Len(notifyEnv) = 0) => sent = <<>>
      /\ ReadyAttempted => ~c.Notify
      /\ (NotifyReturnedNil /\ Len(notifyEnv) > 0 /\ ~c.Notify)
            => (Len(sent) = 2 /\ sent[2] = [msg |-> S_READY, ok |-> TRUE])

\* --notify with a socket: the invocation completed and sent MAINPID alone
C3_Witness ==
    /\ pc = "done"
    /\ NotifyRequested
    /\ Len(notifyEnv) > 0
    /\ Len(sent) = 1
    /\ sent[1].ok

\* C4: MAINPID=<the proxy's pid> is written only as the second datagram, after
\* the first check found the pid alive, MAINPID=<hostPid> was written
\* successfully and the second check found the pid dead; whenever the second
\* check finds it dead the fallback is attempted and notify fails with the
\* early-exit error, whether the fallback write succeeds or not.
C4_FallbackOnlyAtSecondCheck ==
    /\ \A i \in 1..Len(sent) :
          sent[i].msg = MainPidText(SelfPid) =>
             /\ i = 2
             /\ checks = <<FALSE, TRUE>>
             /\ sent[1] = [msg |-> MainPidText(c.Pid), ok |-> TRUE]
             /\ pc = "failed" /\ err = "EarlyExit" /\ failedAt = "notify"
    /\ (Len(checks) = 2 /\ checks[2]) =>
          /\ Len(sent) = 2
          /\ sent[2].msg = MainPidText(SelfPid)
          /\ pc = "failed" /\ err = "EarlyExit" /\ failedAt = "notify"

\* the fallback write failed and notify still returned the early-exit error
C4_Witness ==
    /\ Len(sent) = 2
    /\ sent[2] = [msg |-> MainPidText(SelfPid), ok |-> FALSE]
    /\ err = "EarlyExit"

----------------------------------------------------------------------------
(* Discovery or launch *)

\* the entries of ops that stage st made
OpsAt(st) == SelectSeq(ops, LAMBDA o : o.at = st)

\* the operations of the entries of sequence q
OpNames(q) == [i \in 1..Len(q) |-> q[i].op]

\* how many entries of ops are operation name
Count(name) == Cardinality({i \in 1..Len(ops) : ops[i].op = name})

\* the lookup's InspectContainer found a container, with the given outcome
LookupSaw(res) ==
    /\ Len(ops) >= 1
    /\ ops[1].op = "inspect" /\ ops[1].at = "run" /\ ops[1].res = res
    /\ Len(c.Name) > 0

\* C6: an invocation whose lookup finds the named container running adopts
\* the id and pid that inspect reported, runs no launch command and starts or
\* removes nothing while discovering, and no container comes into being while
\* it runs; so an invocation that follows one which ended with that container
\* and finds it still running ends up with the same Id and Pid.
C6_IdempotentReattach ==
    /\ [](LookupSaw("running") =>
            /\ Len(ops) >= 2
            /\ ops[2] = [op |-> "adopt", id |-> ops[1].id, res |-> "ok",
                         pid |-> ops[1].pid, at |-> "run"]
            /\ c.Id = ops[1].id /\ c.Pid = ops[1].pid
            /\ Count("run") = 0 /\ Count("start") = 0
            /\ OpNames(OpsAt("run")) = <<"inspect", "adopt">>)
    /\ [][LookupSaw("running") =>
            \A id \in CIds : containers[id].state = "absent" => containers'[id].state = "absent"]_vars
    /\ [](/\ invocation > 1
          /\ prev.ok
          /\ LookupSaw("running")
          /\ ops[1].id = prev.Id
          => (c.Id = prev.Id /\ c.Pid = prev.Pid))

\* the second invocation completed on the container the first one launched
C6_Witness ==
    /\ invocation = 2
    /\ pc = "done"
    /\ LookupSaw("running")
    /\ prev = [ok |-> TRUE, Id |-> "c1", Pid |-> 101]
    /\ c.Id = "c1" /\ c.Pid = 101
    /\ Cardinality({id \in CIds : containers[id].state # "absent"}) = 1

\* C5: whenever runContainer succeeds the resolved hostPid is positive.
C5_PidPositive == RunReturnedNil => c.Pid > 0

\* C7: a removal the invocation issues is either the lookup's, of the
\* container its inspect just reported as not running and with autoRemove set,
\* or rmContainer's, of c.Id, with autoRemove set, as the last operation; a
\* container the lookup found running is not removed by the lookup.
C7_RemovalTargets ==
    /\ \A i \in 1..Len(ops) :
          ops[i].op = "remove" =>
             /\ c.Rm
             /\ \/ /\ ops[i].at = "run"
                   /\ i = 2
                   /\ ops[1].op = "inspect" /\ ops[1].res = "stopped"
                   /\ ops[1].id = ops[i].id
                \/ /\ ops[i].at = "cleanup"
                   /\ ops[i].id = c.Id
                   /\ i = Len(ops)
                   /\ pc \in {"done", "failed"}
    /\ LookupSaw("running") => \A i \in 1..Len(ops) : ops[i].op = "remove" => ops[i].at = "cleanup"

\* autoRemove with a stopped container of that name: the lookup removed it
C7_Witness ==
    /\ LookupSaw("stopped")
    /\ Len(ops) >= 2
    /\ ops[2] = [op |-> "remove", id |-> "c1", res |-> "ok", pid |-> 0, at |-> "run"]
    /\ containers["c1"].state = "removed"

\* C8: the launch command is run at most once and never in an invocation that
\* adopted or started an existing container, and a discovery-or-launch stage
\* that succeeded did exactly one of: fresh launch, attach to the running
\* container, restart then attach, remove the dead container then launch.
C8_OneMode ==
    /\ Count("run") <= 1
    /\ Count("run") = 1 => (Count("adopt") = 0 /\ Count("start") = 0)
    /\ RunReturnedNil =>
          OpNames(OpsAt("run")) \in
             { <<"run", "inspect">>,
               <<"inspect", "run", "inspect">>,
               <<"inspect", "adopt">>,
               <<"inspect", "start", "inspect", "adopt">>,
               <<"inspect", "remove", "run", "inspect">> }

\* the dead container was removed and a new one launched and notified
C8_Witness ==
    /\ pc = "done"
    /\ OpNames(OpsAt("run")) = <<"inspect", "remove", "run", "inspect">>

\* C9: when the lookup finds the named container not running and autoRemove is
\* off, the container is started once and no launch command is run; once the
\* start succeeded the container is inspected again and the id and pid adopted
\* are those of that second inspection; when the start or the second
\* inspection fails the invocation fails with no id or pid adopted.
C9_RestartThenAttach ==
    (LookupSaw("stopped") /\ ~c.Rm) =>
       /\ Count("run") = 0 /\ Count("start") <= 1 /\ Count("remove") = 0
       /\ pc # "lookup_start" =>
             /\ Len(ops) >= 2
             /\ ops[2].op = "start" /\ ops[2].id = ops[1].id
       /\ (Len(ops) >= 2 /\ ops[2].res = "error") =>
             (pc = "failed" /\ err = "RuntimeError" /\ c.Id = "" /\ c.Pid = 0 /\ Len(ops) = 2)
       /\ (Len(ops) >= 3 /\ ops[3].res = "error") =>
             (pc = "failed" /\ err = "RuntimeError" /\ c.Id = "" /\ c.Pid = 0 /\ Len(ops) = 3)
       /\ (c.Id # "" \/ c.Pid # 0 \/ Count("adopt") > 0) =>
             /\ OpNames(OpsAt("run")) = <<"inspect", "start", "inspect", "adopt">>
             /\ ops[2].res = "ok"
             /\ ops[3].res \in {"running", "stopped"}
             /\ c.Id = ops[3].id /\ c.Pid = ops[3].pid

\* the stopped container was restarted and its new pid adopted and notified
C9_Witness ==
    /\ LookupSaw("stopped")
    /\ pc = "done"
    /\ c.Id = "c1"
    /\ c.Pid = 111
    /\ containers["c1"].pid = 111

\* C10: once a stage has returned an error the invocation has ended in failure
\* and does nothing more: no datagram, pid-file write, start of the log relay
\* or runtime operation follows; nothing of a later stage has happened, and a
\* container launched before the failing stage is not removed, autoRemove or
\* not.
C10_FailureAborts ==
    /\ [](failedAt # "" => (pc = "failed" /\ err # ""))
    /\ [][failedAt # "" =>
            (sent' = sent /\ ops' = ops /\ files' = files
             /\ (relay = "none" => relay' = "none")
             /\ pc' = pc /\ c' = c /\ err' = err)]_vars
    /\ [](failedAt \in {"parse", "run"} => (sent = <<>> /\ checks = <<>>))
    /\ [](failedAt = "parse" => ops = <<>>)
    /\ [][failedAt' \in {"parse", "run", "notify", "pidfile"} => files' = files]_vars
    /\ [](failedAt \in {"parse", "run", "notify", "pidfile"} => relay = "none")
    /\ [](failedAt \in {"parse", "run", "notify", "pidfile", "supervise"}
             => /\ OpsAt("cleanup") = <<>>
                /\ \A i \in 1..Len(ops) :
                      (ops[i].op = "run" /\ ops[i].res = "ok")
                         => containers[ops[i].id].state # "removed")

\* autoRemove set, a container launched, notify failed: the container is left
C10_Witness ==
    /\ failedAt = "notify"
    /\ c.Rm
    /\ Count("run") = 1
    /\ c.Id = "c1"
    /\ Exists("c1")

----------------------------------------------------------------------------
(* Supervision and exit-time cleanup *)

\* the container with this id is running
Running(id) == id \in CIds /\ containers[id].state = "running"

\* this step is keepAlive returning nil
KeepAliveReturnsNil == Stage(pc) = "supervise" /\ pc' = "rm"

\* C11, as stated: after a successful handshake the supervision stage does
\* not return while the container is still running, whatever the log-relay
\* and auto-remove options are.
C11_AliveWhileRunning ==
    [][KeepAliveReturnsNil => ~Running(c.Id)]_vars

\* C11, amended: with the log relay or auto-remove requested keepAlive
\* returns nil only on an inspect of its own that reports the container not
\* running, so the proxy stays up while the container runs; with neither
\* requested keepAlive returns before any inspect, whether the container is
\* running or not.
C11_AliveWhileSupervising ==
    [][KeepAliveReturnsNil =>
         IF c.Logs \/ c.Rm
         THEN pc = "ka_inspect" /\ ~Running(c.Id) /\ poll'.last = "stopped"
         ELSE pc = "keepalive" /\ poll' = NoPoll]_vars

C11_Witness ==
    /\ pc = "rm"
    /\ c.Logs \/ c.Rm
    /\ poll = [last |-> "stopped", waited |-> TRUE]
    /\ NotifyReturnedNil
    /\ containers[c.Id].gen > 1

\* C12: when auto-remove is set and keepAlive has returned nil, rmContainer
\* issues one forced removal, of the container c.Id, after the loop's last
\* inspect reported it not running and whatever its exit status; an
\* invocation that ends successfully has removed that container; without
\* auto-remove no removal is issued at any stage.
C12_ExitCleanup ==
    LET q == OpsAt("cleanup") IN
    /\ Len(q) <= 1
    /\ Len(q) = 1 =>
          /\ c.Rm
          /\ q[1].op = "remove" /\ q[1].id = c.Id
          /\ poll.last = "stopped"
          /\ pc \in {"done", "failed"}
    /\ (c.Rm /\ clientOk /\ (pc = "done" \/ failedAt = "cleanup")) => Len(q) = 1
    /\ (c.Rm /\ pc = "done") => q[1].res = "ok" /\ containers[c.Id].state = "removed"
    /\ ~c.Rm => Count("remove") = 0

C12_Witness ==
    /\ pc = "done"
    /\ c.Rm
    /\ poll = [last |-> "stopped", waited |-> TRUE]
    /\ containers[c.Id].state = "removed"
    /\ containers[c.Id].exit = 1

----------------------------------------------------------------------------
(* The rewriting of the argument vector *)

\* the raw run arguments: what follows the first "run" of the argument vector
RawRunArgs ==
    LET i == CHOOSE k \in 1..Len(args) :
                 args[k] = T_run /\ \A j \in 1..(k - 1) : args[j] # T_run
    IN  SubSeq(args, i + 1, Len(args))

\* the proxy's own arguments: what precedes the first "run"
RawOwnArgs == SubSeq(args, 1, Len(args) - Len(RawRunArgs) - 1)

\* how many tokens of q are in S
CountIn(q, S) == Cardinality({i \in 1..Len(q) : q[i] \in S})

\* parseContext has returned a context and no error
ParsedOk == pc \notin {"parse", "failed"}

\* C13, as stated: for every raw run-argument vector the rewritten vector
\* contains a flag forcing detached execution exactly once.
C13_DetachOnce ==
    ParsedOk => DetachOptions(c.Args, 1) = 1

\* the tokens that ask the runtime to remove the container when it exits
RmTokens == {<<"-", "-", "r", "m">>, <<"-", "r", "m">>}

\* C14: when the raw run arguments hold --rm or -rm at any position, no such
\* token is in the rewritten vector and autoRemove is true; when they hold
\* none, autoRemove is false; every other token is kept, in order.
C14_RmStripped ==
    ParsedOk =>
      /\ c.Rm <=> CountIn(RawRunArgs, RmTokens) > 0
      /\ CountIn(c.Args, RmTokens) = 0
      /\ LET kept == SelectSeq(RawRunArgs, LAMBDA t : t \notin RmTokens)
         IN  /\ Len(c.Args) >= Len(kept)
             /\ SubSeq(c.Args, Len(c.Args) - Len(kept) + 1, Len(c.Args)) = kept

C14_Witness ==
    /\ ParsedOk
    /\ c.Rm
    /\ Len(RawRunArgs) = 3
    /\ RawRunArgs[1] = T_img
    /\ RawRunArgs[2] = <<"-", "r", "m">>
    /\ RawRunArgs[3] = <<"-", "-", "r", "m">>
    /\ c.Args = <<T_d, T_img>>

\* the key of an environment entry KEY=VALUE
EnvKey(e) == SubSeq(e, 1, IndexOf(e, "=") - 1)

\* the environment entries whose key is neither HOME nor PATH
Inherited ==
    SelectSeq(environ, LAMBDA e : EnvKey(e) \notin {<<"H", "O", "M", "E">>, <<"P", "A", "T", "H">>})

\* -e or --env among the proxy's own flags
EnvRequested == \E i \in 1..Len(RawOwnArgs) : RawOwnArgs[i] \in {T_e, T_env}

\* C16: with environment-inherit requested the rewritten vector holds one
\* pair (-e, KEY=VALUE) for every environment entry whose key is not HOME or
\* PATH, in the environment's order, and none for HOME or PATH; without it
\* the only -e is the one of the notify socket.
C16_EnvInherited ==
    ParsedOk =>
      LET adv == NotifyRequested /\ Len(notifyEnv) > 0
          s   == IF adv THEN 4 ELSE 0
          n   == IF EnvRequested THEN Len(Inherited) ELSE 0
      IN  /\ CountIn(c.Args, {T_e}) = n + (IF adv THEN 1 ELSE 0)
          /\ Len(c.Args) >= s + 2 * n
          /\ \A k \in 1..n : /\ c.Args[s + 2 * k - 1] = T_e
                              /\ c.Args[s + 2 * k] = Inherited[k]
          /\ \A i \in 1..Len(c.Args) :
                 Contains(c.Args[i], "=") =>
                    EnvKey(c.Args[i]) \notin {<<"H", "O", "M", "E">>, <<"P", "A", "T", "H">>}

C16_Witness ==
    /\ ParsedOk
    /\ EnvRequested
    /\ environ = <<S_HOME \o <<"/", "r">>, <<"H", "O", "M", "E", "R", "=", "1">>>>
    /\ c.Args = <<T_e, <<"H", "O", "M", "E", "R", "=", "1">>, T_d, T_img>>

----------------------------------------------------------------------------
(* The pid file *)

\* pidFile has returned nil and mainWithArgs has gone on
PidFileReturnedNil ==
    \/ Stage(pc) \in {"pipelogs", "supervise", "cleanup"}
    \/ pc = "done"
    \/ failedAt \in {"pipelogs", "supervise", "cleanup"}

\* -p with a path among the proxy's own flags
PidPathGiven == \E i \in 1..(Len(RawOwnArgs) - 1) : RawOwnArgs[i] = T_p

\* the decimal text of a pid
DecText(pid) ==
    LET m == MainPidText(pid) IN SubSeq(m, Len(S_MAINPID) + 1, Len(m))

\* the file at the pid-file path holds the decimal text of c.Pid
PidWritten == files = [exists |-> TRUE, content |-> DecText(c.Pid)]

\* C15: the pid file is written exactly when a path is configured, the pid
\* is positive and notify has returned nil; once pidFile has returned nil
\* after writing, the file holds the decimal text of c.Pid and nothing else,
\* whatever it held before; in every other state the file is as the
\* invocation found it; a write error fails the invocation with no log
\* relay, no poll and no removal.
C15_PidFile ==
    /\ [](Parsed =>
            /\ PidFileReturnedNil => (PidWritten <=> (PidPathGiven /\ c.Pid > 0))
            /\ ~PidFileReturnedNil => ~PidWritten
            /\ ~PidWritten => files \in {NoFile, [exists |-> TRUE, content |-> <<"9", "9">>]}
            /\ failedAt = "pidfile" =>
                  /\ err = "IOError" /\ pc = "failed"
                  /\ PidPathGiven /\ c.Pid > 0 /\ NotifyReturnedNil
                  /\ relay = "none" /\ poll = NoPoll /\ OpsAt("cleanup") = <<>>)
    /\ [][files' # files =>
            /\ pc = "pidfile" /\ pc' = "pipelogs"
            /\ files' = [exists |-> TRUE, content |-> DecText(c.Pid)]]_vars

C15_Witness ==
    /\ pc = "done"
    /\ PidPathGiven
    /\ PidWritten
    /\ files.content = <<"1", "1", "1">>
    /\ Len(sent) = 2

----------------------------------------------------------------------------
(* The supervision loop *)

\* keepAlive has returned nil and mainWithArgs has gone on
KeepAliveReturnedNil == pc \in {"rm", "done"} \/ failedAt = "cleanup"

\* C17: with the log relay or auto-remove requested keepAlive has returned
\* nil only if its last inspect reported the container not running; a
\* WaitContainer that returns, whether the container exited or not, is
\* followed by another inspect and never by a return; an inspect error fails
\* the invocation with no removal; with neither option keepAlive never
\* inspects and never waits.
C17_SupervisionLoop ==
    /\ []((KeepAliveReturnedNil /\ (c.Logs \/ c.Rm)) => poll.last = "stopped")
    /\ []((Parsed /\ ~(c.Logs \/ c.Rm)) => poll = NoPoll /\ pc \notin {"ka_inspect", "ka_wait"})
    /\ [](poll.last = "error" <=> (failedAt = "supervise" /\ clientOk))
    /\ [](failedAt = "supervise" =>
            /\ pc = "failed" /\ err = "RuntimeError"
            /\ OpsAt("cleanup") = <<>>
            /\ c.Id \in CIds => containers[c.Id].state # "removed")
    /\ [][pc = "ka_wait" /\ pc' # pc =>
            pc' = "ka_inspect" /\ poll'.waited /\ poll'.last = "running"]_vars
    /\ [][(pc = "ka_inspect" /\ pc' = "ka_wait") => Running(c.Id)]_vars

C17_Witness ==
    /\ pc = "ka_inspect"
    /\ poll = [last |-> "running", waited |-> TRUE]
    /\ Running(c.Id)
    /\ c.Rm /\ ~c.Logs

\* the main goroutine is in keepAlive's loop
InLoop == pc \in {"ka_inspect", "ka_wait"}

\* mainWithArgs has returned
Ended == pc \in {"done", "failed"}

\* C18: with the log relay or auto-remove requested, if from some time on
\* the container is not running and every call to the runtime returns,
\* keepAlive returns and the invocation ends; as long as the container runs
\* the loop does not return nil, however many times it has gone round: it
\* stays in the loop, or ends with the error of an inspect.
C18_SupervisionEnds ==
    /\ []((InLoop /\ (c.Logs \/ c.Rm)) => ((<>[]~Running(c.Id)) => <>Ended))
    /\ [][(InLoop /\ Running(c.Id) /\ containers'[c.Id].state = "running") =>
            \/ InLoop'
            \/ pc' = "failed" /\ err' = "RuntimeError" /\ failedAt' = "supervise"]_vars

C18_Witness ==
    /\ pc = "done"
    /\ c.Logs /\ ~c.Rm
    /\ poll = [last |-> "stopped", waited |-> TRUE]
    /\ containers[c.Id].state = "stopped"
    /\ containers[c.Id].gen = MaxRestarts + 1

----------------------------------------------------------------------------
(* The order of the stages and the log relay *)

\* the place of a stage in mainWithArgs
StageNo(st) ==
    CASE st = "parse" -> 0
      [] st = "run" -> 1
      [] st = "notify" -> 2
      [] st = "pidfile" -> 3
      [] st = "pipelogs" -> 4
      [] st = "supervise" -> 5
      [] st = "cleanup" -> 6
      [] st = "end" -> 7

\* C19: the main goroutine goes from a stage to the next one only, or fails;
\* a datagram is written, and the pid checked, only after runContainer has
\* returned nil with an id and a positive pid; the log relay is started only
\* after notify and pidFile have returned nil; the exit-time removal is issued
\* only after keepAlive has returned nil.
C19_StageOrder ==
    /\ [][pc' # pc =>
            \/ pc' = "failed"
            \/ StageNo(Stage(pc')) \in {StageNo(Stage(pc)), StageNo(Stage(pc)) + 1}]_vars
    /\ []((sent # <<>> \/ checks # <<>>) => RunReturnedNil /\ c.Id \in CIds)
    /\ [](sent # <<>> => c.Pid > 0)
    /\ [](relay # "none" => NotifyReturnedNil /\ PidFileReturnedNil)
    /\ [](poll # NoPoll => relay # "none")
    /\ [](OpsAt("cleanup") # <<>> => KeepAliveReturnedNil /\ relay # "none")
    /\ [][files' # files => sent' = sent /\ relay' = "none" /\ NotifyReturnedNil']_vars

C19_Witness ==
    /\ pc = "done"
    /\ Len(sent) = 2
    /\ PidPathGiven /\ PidWritten
    /\ relay = "streaming"
    /\ poll.last = "stopped"
    /\ Len(OpsAt("cleanup")) = 1

\* C20: once the log relay is started the main goroutine writes no field of
\* the context; a step of the relay changes nothing but the relay's own
\* state; and the main goroutine never waits for the relay: in keepAlive and
\* rmContainer its next step can be taken whatever the relay has done.
C20_RelayApart ==
    /\ [][relay # "none" => c' = c]_vars
    /\ [][relay' # relay =>
            IF relay = "none" THEN pc = "pipelogs" /\ pc' = "keepalive" /\ relay' = "started"
            ELSE UNCHANGED vars_but_relay]_vars
    /\ [](pc = "keepalive" => ENABLED KeepAlive)
    /\ [](pc = "ka_inspect" => ENABLED KeepAliveInspect)
    /\ [](pc = "ka_wait" => ENABLED KeepAliveWait)
    /\ [](pc = "rm" => ENABLED RmContainer)

C20_Witness ==
    /\ pc = "done"
    /\ relay = "started"
    /\ c.Logs /\ c.Rm
    /\ containers[c.Id].state = "removed"

====
